---- MODULE Spec2Model ----
(***************************************************************************)
(* Conversation memory of langchain-agent-base: the in-memory session      *)
(* registry of ConversationMemoryManager (src/src/memory.py) over the      *)
(* Qdrant-backed ConversationMemoryStorage (src/src/storage.py).           *)
(*                                                                         *)
(* Texts are sequences of whitespace-separated words, so that              *)
(* len(text.split()) is Len(text).  A float token count is an exact        *)
(* rational [n, d] in lowest terms.  A datetime is a positive integer and  *)
(* its isoformat() the decimal string of it.  None, "", [] and 0 are the   *)
(* falsy values the code tests with `if x:` / `x or default`.              *)
(***************************************************************************)
EXTENDS Integers, Sequences, FiniteSets, TLC

VARIABLES
    cfg,              \* the constructor's arguments kept on self
    ledger,           \* the points of the conversation_history collection, in upsert order
    active_sessions,  \* self.active_sessions: session_id -> session dict
    clock,            \* the last value datetime.now() returned
    ret,              \* what the last call did: its result or the exception it raised
    tasks             \* the add_message coroutines that are suspended at an await

vars == <<cfg, ledger, active_sessions, clock, ret, tasks>>

----------------------------------------------------------------------------
(* Bounds of the model *)

PreloadedTurns == 11  \* turns of s1 a collection inherited from an earlier process holds
Horizon == 14         \* the time up to which the process is followed
MaxStores == 5        \* add_message calls a process starting on an empty collection makes

(* Program constants *)

MinMessages == 5          \* len(session["messages"]) < 5
RecentWindow == 10        \* messages[-10:]
ExpensiveWindow == 3      \* messages[-3:]
ContextSearchLimit == 5   \* search_memory(..., limit=5)
RestoreLimit == 20        \* get_recent_messages(session_id, limit=20)
ScrollLimit == 100        \* client.scroll(..., limit=100)
DefaultMaxContextTokens == 4000

----------------------------------------------------------------------------
(* Floats as exact rationals *)

RECURSIVE GCD(_, _)
GCD(a, b) == IF b = 0 THEN a ELSE GCD(b, a % b)

Rat(n, d) == LET g == GCD(n, d) IN [n |-> n \div g, d |-> d \div g]

Zero == [n |-> 0, d |-> 1]
RatInt(i) == [n |-> i, d |-> 1]
RatAdd(a, b) == Rat(a.n * b.d + b.n * a.d, a.d * b.d)
RatMul(a, b) == Rat(a.n * b.n, a.d * b.d)
RatLeq(a, b) == a.n * b.d <= b.n * a.d
RatLess(a, b) == a.n * b.d < b.n * a.d
RatFloor(a) == a.n \div a.d

HalfRatio == [n |-> 1, d |-> 2]
DefaultCompressionRatio == [n |-> 3, d |-> 10]

\* len(f"{message} {response}".split()) * 1.3
EstimateTokens(message, response) == Rat(13 * Len(message \o response), 10)

----------------------------------------------------------------------------
(* Sequences *)

Min(a, b) == IF a <= b THEN a ELSE b

\* seq[-k:]
LastK(seq, k) == SubSeq(seq, Len(seq) - Min(k, Len(seq)) + 1, Len(seq))

\* seq[:k]
FirstK(seq, k) == SubSeq(seq, 1, Min(k, Len(seq)))

\* seq[k:]
DropK(seq, k) == SubSeq(seq, Min(k, Len(seq)) + 1, Len(seq))

RECURSIVE Flatten(_)
Flatten(seqs) == IF seqs = <<>> THEN <<>> ELSE Head(seqs) \o Flatten(Tail(seqs))

RECURSIVE SumTokens(_)
SumTokens(messages) ==
    IF messages = <<>> THEN Zero
    ELSE RatAdd(EstimateTokens(Head(messages).message, Head(messages).response),
                SumTokens(Tail(messages)))

Range(seq) == {seq[i] : i \in 1..Len(seq)}

RECURSIVE SetToSeq(_)
\* list(a_set): the order is the set's iteration order; the model's sets of
\* urls hold at most one element, where there is one order.
SetToSeq(S) == IF S = {} THEN <<>> ELSE LET x == CHOOSE y \in S : TRUE
                                       IN <<x>> \o SetToSeq(S \ {x})

----------------------------------------------------------------------------
(* datetime *)

IsoFormat(ts) == ToString(ts)

\* datetime.fromisoformat
FromIsoFormat(s) == CHOOSE t \in 1..(Horizon + ScrollLimit + 2) : ToString(t) = s

----------------------------------------------------------------------------
(* What callers pass *)

Sessions == {"s1", "s1_summary"}

Turn1 == [message |-> <<"ping">>, response |-> <<"pong">>, urls |-> <<>>]
Turn2 == [message |-> <<"see", "docs">>, response |-> <<"read", "them">>,
          urls |-> <<"http://u">>]
UserInputs == {Turn1, Turn2}

\* The add_message calls the model makes: both turns on s1, the short one on
\* the session whose id is s1's summary id
Calls == ({"s1"} \X UserInputs) \cup ({"s1_summary"} \X {Turn1})

MaxTokensArgs == {0, 6}

\* The constructor's arguments: the defaults but for a small threshold, in a
\* process whose summarizer Agent was built and in one where it could not be
Configs ==
    { [summarization_threshold |-> 13, compression_ratio |-> DefaultCompressionRatio,
       max_context_tokens |-> DefaultMaxContextTokens, summarizer |-> b]
        : b \in BOOLEAN }

\* The summarizer agent's reply
SummaryReply == <<"talk", "about", "docs">>

----------------------------------------------------------------------------
(* ConversationMemoryStorage: the Ledger *)

NoMetadata == [type |-> "", original_session |-> ""]

\* str(uuid.uuid4()): a fresh id on every call
Uuid4(L) == "uuid-" \o ToString(Len(L) + 1)

\* store_message with the point id derived from the session: the upsert
\* replaces the session's earlier point
StoreMessagePerSession(L, session_id, message, response, timestamp, urls, metadata) ==
    Append(SelectSeq(L, LAMBDA p : p.id # session_id),
           [id |-> session_id,
            session_id |-> session_id,
            message |-> message,
            response |-> response,
            timestamp |-> IsoFormat(timestamp),
            urls |-> urls,
            metadata |-> metadata])

\* store_message, when embed_query and upsert succeed: one new point
StoreMessage(L, session_id, message, response, timestamp, urls, metadata) ==
    Append(L, [id |-> Uuid4(L),
               session_id |-> session_id,
               message |-> message,
               response |-> response,
               timestamp |-> IsoFormat(timestamp),
               urls |-> urls,
               metadata |-> metadata])

\* the id store_message returns
StoredId(L) == L[Len(L)].id

\* A point some other writer left without a timestamp in its payload
NoTimestamp(p) == p.timestamp = ""

\* messages.sort(key=lambda x: x["timestamp"]): a stable sort.  An element
\* comes after those of smaller timestamp and those of equal timestamp that
\* stood before it.
SortByTimestamp(ms) ==
    LET n == Len(ms)
        key == [i \in 1..n |-> ms[i].timestamp] \o <<>>
        rank == [i \in 1..n |->
                    1 + Cardinality({j \in 1..n :
                            key[j] < key[i] \/ (key[j] = key[i] /\ j < i)})] \o <<>>
    IN [k \in 1..n |-> ms[CHOOSE i \in 1..n : rank[i] = k]] \o <<>>

\* get_recent_messages without the session filter
GetRecentMessagesAnySession(L, session_id, limit) ==
    LET results == FirstK(L, ScrollLimit)
        messages == [i \in 1..Len(results) |->
                        [timestamp |-> FromIsoFormat(results[i].timestamp),
                         message |-> results[i].message,
                         response |-> results[i].response,
                         urls |-> results[i].urls]]
    IN LastK(SortByTimestamp(messages), limit)

\* get_recent_messages, when scroll succeeds.  scroll returns the first
\* ScrollLimit matching points in the collection's own order.
\* result.payload["timestamp"] of a point without it raises KeyError inside
\* the try, whose except prints and returns [].
GetRecentMessages(L, session_id, limit) ==
    LET results == FirstK(SelectSeq(L, LAMBDA p : p.session_id = session_id), ScrollLimit)
        messages == [i \in 1..Len(results) |->
                        [timestamp |-> FromIsoFormat(results[i].timestamp),
                         message |-> results[i].message,
                         response |-> results[i].response,
                         urls |-> results[i].urls]]
    IN IF \E i \in 1..Len(results) : NoTimestamp(results[i]) THEN <<>>
       ELSE LastK(SortByTimestamp(messages), limit)

\* The points a search's filter lets through.  A range condition on a key the
\* payload lacks is not satisfied.
Matches(L, session_id, start_time, end_time, urls) ==
    SelectSeq(L, LAMBDA p :
        /\ (session_id # "" => p.session_id = session_id)
        /\ (start_time # 0 => (~NoTimestamp(p) /\ FromIsoFormat(p.timestamp) >= start_time))
        /\ (end_time # 0 => (~NoTimestamp(p) /\ FromIsoFormat(p.timestamp) <= end_time))
        /\ \A u \in Range(urls) : u \in Range(p.urls))

Reverse(seq) == [i \in 1..Len(seq) |-> seq[Len(seq) + 1 - i]] \o <<>>

\* The similarity order of client.search is the embedding's; the model ranks
\* the matching points newest first or oldest first.
Rankings == {"newest", "oldest"}

\* client.search: the limit best matching points
ClientSearch(L, session_id, start_time, end_time, urls, limit, ranking) ==
    LET found == Matches(L, session_id, start_time, end_time, urls)
    IN FirstK(IF ranking = "newest" THEN Reverse(found) ELSE found, limit)

\* result.payload["timestamp"] of search_conversations raises KeyError, which
\* nothing in search_conversations or search_memory catches
SearchKeyError(L, session_id, start_time, end_time, urls, limit, ranking) ==
    \E p \in Range(ClientSearch(L, session_id, start_time, end_time, urls, limit, ranking)) :
        NoTimestamp(p)

\* search_conversations, when embed_query and search succeed
SearchConversations(L, query, session_id, start_time, end_time, urls, limit, ranking) ==
    LET top == ClientSearch(L, session_id, start_time, end_time, urls, limit, ranking)
    IN [i \in 1..Len(top) |->
           [id |-> top[i].id,
            score |-> Len(top) - i,
            message |-> top[i].message,
            response |-> top[i].response,
            timestamp |-> top[i].timestamp,
            urls |-> top[i].urls,
            metadata |-> top[i].metadata]]

----------------------------------------------------------------------------
(* ConversationMemoryManager *)

TopicIndicators == {"about", "regarding", "concerning", "discussing"}

\* re.findall(r'\b[A-Z][a-z]+\b', summary_text), for the words the model's
\* summarizer uses
CapitalizedWords == {"Talk", "Docs"}

\* _extract_topics: the word after each indicator, the first five capitalized
\* words, de-duplicated, at most ten
ExtractTopics(summary_text) ==
    LET after == {summary_text[i + 1] : i \in {j \in 1..(Len(summary_text) - 1) :
                                                summary_text[j] \in TopicIndicators}}
        capitalized == FirstK(SelectSeq(summary_text, LAMBDA w : w \in CapitalizedWords), 5)
    IN FirstK(SetToSeq(after \cup Range(capitalized)), 10)

\* The words of a list in json.dumps's output
JsonList(items) == IF items = <<>> THEN <<"[]">> ELSE items

\* json.dumps(summary_dict), split at whitespace
JsonDumps(summary) ==
    <<"session_id:", summary.session_id,
      "start_time:", IsoFormat(summary.start_time),
      "end_time:", IsoFormat(summary.end_time),
      "message_count:", ToString(summary.message_count),
      "topics:">> \o JsonList(summary.topics) \o
    <<"key_information:">> \o summary.key_information \o
    <<"urls_mentioned:">> \o JsonList(summary.urls_mentioned) \o
    <<"summary_text:">> \o summary.summary_text \o
    <<"original_token_count:", ToString(summary.original_token_count),
      "compressed_token_count:", ToString(summary.compressed_token_count)>>

\* f"{session_id}_summary"
SummarySessionId(session_id) == session_id \o "_summary"

\* session["token_count"] *= 0.5
CompactionScale == HalfRatio

\* the older half rounded up
MessagesToSummarizeCeil(messages) == FirstK(messages, (Len(messages) + 1) \div 2)

\* messages[:len(messages)//2]
MessagesToSummarize(messages) == FirstK(messages, Len(messages) \div 2)

\* ConversationSummary(...) of _maybe_summarize_session
MakeSummary(session_id, session, summary_response) ==
    LET batch == MessagesToSummarize(session.messages)
    IN [session_id |-> session_id,
        start_time |-> batch[1].timestamp,
        end_time |-> batch[Len(batch)].timestamp,
        message_count |-> Len(batch),
        topics |-> ExtractTopics(summary_response),
        key_information |-> summary_response,
        urls_mentioned |-> SetToSeq(UNION {Range(batch[i].urls) : i \in 1..Len(batch)}),
        summary_text |-> summary_response,
        original_token_count |-> RatFloor(RatMul(session.token_count, HalfRatio)),
        compressed_token_count |-> Len(summary_response)]

\* the count scaled but the batch left in the registry
CompactedKeepBatch(session) ==
    [session EXCEPT !.token_count = RatMul(session.token_count, CompactionScale)]

\* the newest messages dropped in place of the batch
CompactedDropNewest(session) ==
    [session EXCEPT
        !.messages = FirstK(session.messages,
                            Len(session.messages) - Len(MessagesToSummarize(session.messages))),
        !.token_count = RatMul(session.token_count, CompactionScale)]

\* The session dict after a successful summary: the batch dropped, the count scaled
Compacted(session) ==
    [session EXCEPT
        !.messages = DropK(session.messages, Len(MessagesToSummarize(session.messages))),
        !.token_count = RatMul(session.token_count, CompactionScale)]

\* _maybe_summarize_session with the batch dropped before the summary is stored
MaybeSummarizeDropFirst(sessions, L, session_id, now, chatOk, storeOk) ==
    LET session == sessions[session_id]
        same(log) == [sessions |-> sessions, ledger |-> L, clock |-> now, log |-> log]
        dropped == [sessions EXCEPT ![session_id] = Compacted(session)]
    IN IF ~cfg.summarizer THEN same("no_summarizer")
       ELSE IF Len(session.messages) < MinMessages THEN same("too_few_messages")
       ELSE IF ~chatOk THEN same("summarization_failed")
       ELSE IF ~storeOk THEN [sessions |-> dropped, ledger |-> L, clock |-> now,
                              log |-> "summarization_failed_on_store"]
       ELSE [sessions |-> dropped,
             ledger |-> StoreMessage(L, SummarySessionId(session_id),
                                     <<"CONVERSATION_SUMMARY">>,
                                     JsonDumps(MakeSummary(session_id, session, SummaryReply)),
                                     now + 1, <<>>,
                                     [type |-> "summary", original_session |-> session_id]),
             clock |-> now + 1,
             log |-> "summarized"]

\* _maybe_summarize_session.  chatOk: self.summarizer.chat returns;
\* storeOk: the summary's store_message returns.  Any exception is caught
\* and printed.
MaybeSummarize(sessions, L, session_id, now, chatOk, storeOk) ==
    LET session == sessions[session_id]
        same(log) == [sessions |-> sessions, ledger |-> L, clock |-> now, log |-> log]
    IN IF ~cfg.summarizer THEN same("no_summarizer")
       ELSE IF Len(session.messages) < MinMessages THEN same("too_few_messages")
       ELSE IF ~chatOk THEN same("summarization_failed")
       ELSE IF ~storeOk THEN same("summarization_failed_on_store")
       ELSE [sessions |-> [sessions EXCEPT ![session_id] = Compacted(session)],
             ledger |-> StoreMessage(L, SummarySessionId(session_id),
                                     <<"CONVERSATION_SUMMARY">>,
                                     JsonDumps(MakeSummary(session_id, session, SummaryReply)),
                                     now + 1, <<>>,
                                     [type |-> "summary", original_session |-> session_id]),
             clock |-> now + 1,
             log |-> "summarized"]

NewSession(timestamp) ==
    [messages |-> <<>>, token_count |-> Zero, last_activity |-> timestamp,
     urls |-> {}, topics |-> {}]

\* add_message setting token_count to the new turn's estimate
AppendedOverwrite(sessions, session_id, timestamp, in) ==
    LET session == IF session_id \in DOMAIN sessions THEN sessions[session_id]
                   ELSE NewSession(timestamp)
    IN [session EXCEPT
           !.messages = Append(@, [timestamp |-> timestamp, message |-> in.message,
                                   response |-> in.response, urls |-> in.urls]),
           !.token_count = EstimateTokens(in.message, in.response),
           !.last_activity = timestamp,
           !.urls = @ \cup Range(in.urls)]

\* The session dict of add_message after the append and the counters' update
Appended(sessions, session_id, timestamp, in) ==
    LET session == IF session_id \in DOMAIN sessions THEN sessions[session_id]
                   ELSE NewSession(timestamp)
    IN [session EXCEPT
           !.messages = Append(@, [timestamp |-> timestamp, message |-> in.message,
                                   response |-> in.response, urls |-> in.urls]),
           !.token_count = RatAdd(@, EstimateTokens(in.message, in.response)),
           !.last_activity = timestamp,
           !.urls = @ \cup Range(in.urls)]

\* the threshold test true only for the turn that takes the count across
OverThresholdCrossing(session) ==
    LET last == session.messages[Len(session.messages)]
        before == RatAdd(session.token_count,
                         RatMul(RatInt(-1), EstimateTokens(last.message, last.response)))
    IN /\ RatLess(RatInt(cfg.summarization_threshold), session.token_count)
       /\ RatLeq(before, RatInt(cfg.summarization_threshold))

\* the threshold test with >= for >
OverThresholdOrEqual(session) ==
    RatLeq(RatInt(cfg.summarization_threshold), session.token_count)

\* session["token_count"] > self.summarization_threshold
OverThreshold(session) == RatLess(RatInt(cfg.summarization_threshold), session.token_count)

\* What a call left behind: the value it returned or that it raised, the
\* branch it took (what it printed), the max_tokens it was given, and whether
\* it rebuilt the session's entry from the collection
Result(op, session_id, raised, value, log, max_tokens) ==
    [op |-> op, session_id |-> session_id, raised |-> raised, value |-> value,
     log |-> log, max_tokens |-> max_tokens,
     restored |-> op = "get_context" /\ session_id \notin DOMAIN active_sessions
                  /\ session_id \in DOMAIN active_sessions']

\* What may go wrong in one add_message: nothing, the turn's store_message
\* raises, the summarizer's chat raises, the summary's store_message raises
AddFaults == {"none", "write", "chat", "summary_write"}

\* add_message with the registry updated before the turn is stored
AddMessageHotFirst(session_id, in, fault) ==
    /\ clock < Horizon
    /\ LET timestamp == clock + 1
           sessions == (session_id :> Appended(active_sessions, session_id, timestamp, in))
                           @@ active_sessions
       IN IF fault = "write"
          THEN /\ active_sessions' = sessions
               /\ ret' = Result("add_message", session_id, TRUE, <<>>, "store_failed", 0)
               /\ UNCHANGED <<cfg, tasks, ledger, clock>>
          ELSE LET stored == StoreMessage(ledger, session_id, in.message, in.response,
                                          timestamp, in.urls, NoMetadata)
                    after == IF OverThreshold(sessions[session_id])
                             THEN MaybeSummarize(sessions, stored, session_id, timestamp,
                                                 fault # "chat", fault # "summary_write")
                             ELSE [sessions |-> sessions, ledger |-> stored,
                                   clock |-> timestamp, log |-> "under_threshold"]
               IN /\ ledger' = after.ledger
                  /\ active_sessions' = after.sessions
                  /\ clock' = after.clock
                  /\ ret' = Result("add_message", session_id, FALSE, <<StoredId(stored)>>,
                                   after.log, 0)
                  /\ UNCHANGED <<cfg, tasks>>

\* add_message.  An exception of the turn's store_message leaves add_message
\* at the await.
AddMessage(session_id, in, fault) ==
    /\ clock < Horizon
    /\ LET timestamp == clock + 1 IN
       IF fault = "write"
       THEN /\ ret' = Result("add_message", session_id, TRUE, <<>>, "store_failed", 0)
            /\ UNCHANGED <<cfg, tasks, ledger, active_sessions, clock>>
       ELSE LET stored == StoreMessage(ledger, session_id, in.message, in.response,
                                       timestamp, in.urls, NoMetadata)
                point_id == StoredId(stored)
                sessions == (session_id :> Appended(active_sessions, session_id, timestamp, in))
                                @@ active_sessions
                after == IF OverThreshold(sessions[session_id])
                         THEN MaybeSummarize(sessions, stored, session_id, timestamp,
                                             fault # "chat", fault # "summary_write")
                         ELSE [sessions |-> sessions, ledger |-> stored,
                               clock |-> timestamp, log |-> "under_threshold"]
            IN /\ ledger' = after.ledger
               /\ active_sessions' = after.sessions
               /\ clock' = after.clock
               /\ ret' = Result("add_message", session_id, FALSE, <<point_id>>, after.log, 0)
               /\ UNCHANGED <<cfg, tasks>>

----------------------------------------------------------------------------
(* add_message as the event loop runs it: the coroutine runs from one await
   of the collection to the next, and other coroutines run while it waits.
   self.summarizer.chat is a plain call and does not suspend. *)

NoInput == [message |-> <<>>, response |-> <<>>, urls |-> <<>>]

\* The locals of an add_message coroutine and the await it is suspended at:
\* turn_write (store_message of the turn is pending), turn_stored (it has
\* returned), summary_write (store_message of the summary is pending),
\* summary_stored (it has returned); idle when no call is in progress
Idle ==
    [pc |-> "idle", session_id |-> "", in |-> NoInput, timestamp |-> 0, point_id |-> "",
     messages_to_summarize |-> <<>>, summary |-> <<>>, summary_time |-> 0]

\* No coroutine of add_message is scheduled step by step
NoTasks == [t \in {} |-> Idle]

\* session["messages"] = session["messages"][len(messages_to_summarize):]
\* with the count left as it was
CompactedByUnscaled(session, messages_to_summarize) ==
    [session EXCEPT !.messages = DropK(session.messages, Len(messages_to_summarize))]

\* the oldest half of the session's messages as they are now removed
CompactedByCurrentHalf(session, messages_to_summarize) ==
    [session EXCEPT
        !.messages = DropK(session.messages, Len(MessagesToSummarize(session.messages))),
        !.token_count = RatMul(session.token_count, CompactionScale)]

\* The two assignments after the summary's store_message: the session's
\* messages as they are now, less as many as the batch taken before the
\* await held, and the count scaled
CompactedBy(session, messages_to_summarize) ==
    [session EXCEPT
        !.messages = DropK(session.messages, Len(messages_to_summarize)),
        !.token_count = RatMul(session.token_count, CompactionScale)]

\* add_message is called: timestamp = datetime.now(), then the coroutine
\* waits for store_message
CallAdd(task, session_id, in) ==
    /\ tasks[task].pc = "idle"
    /\ clock < Horizon
    /\ clock' = clock + 1
    /\ tasks' = [tasks EXCEPT ![task] =
                    [Idle EXCEPT !.pc = "turn_write", !.session_id = session_id,
                                 !.in = in, !.timestamp = clock + 1]]
    /\ UNCHANGED <<cfg, ledger, active_sessions, ret>>

\* The turn's upsert is done, or store_message raises and add_message with it
TurnWrite(task, ok) ==
    LET f == tasks[task] IN
    /\ f.pc = "turn_write"
    /\ IF ok
       THEN LET stored == StoreMessage(ledger, f.session_id, f.in.message, f.in.response,
                                       f.timestamp, f.in.urls, NoMetadata)
            IN /\ ledger' = stored
               /\ tasks' = [tasks EXCEPT ![task] =
                               [f EXCEPT !.pc = "turn_stored", !.point_id = StoredId(stored)]]
               /\ UNCHANGED <<cfg, active_sessions, clock, ret>>
       ELSE /\ tasks' = [tasks EXCEPT ![task] = Idle]
            /\ ret' = Result("add_message", f.session_id, TRUE, <<>>, "store_failed", 0)
            /\ UNCHANGED <<cfg, ledger, active_sessions, clock>>

\* add_message resumes after the turn's store_message: the registry update,
\* the threshold test and _maybe_summarize_session up to the summary's
\* store_message
AfterTurnStored(task, chatOk) ==
    LET f == tasks[task]
        s == f.session_id
        sessions == (s :> Appended(active_sessions, s, f.timestamp, f.in)) @@ active_sessions
        session == sessions[s]
        return(log) ==
            /\ tasks' = [tasks EXCEPT ![task] = Idle]
            /\ ret' = Result("add_message", s, FALSE, <<f.point_id>>, log, 0)
            /\ UNCHANGED <<cfg, ledger, clock>>
    IN /\ f.pc = "turn_stored"
       /\ active_sessions' = sessions
       /\ IF ~OverThreshold(session) THEN return("under_threshold")
          ELSE IF ~cfg.summarizer THEN return("no_summarizer")
          ELSE IF Len(session.messages) < MinMessages THEN return("too_few_messages")
          ELSE IF ~chatOk THEN return("summarization_failed")
          ELSE /\ tasks' = [tasks EXCEPT ![task] =
                               [f EXCEPT !.pc = "summary_write",
                                         !.messages_to_summarize =
                                             MessagesToSummarize(session.messages),
                                         !.summary =
                                             JsonDumps(MakeSummary(s, session, SummaryReply)),
                                         !.summary_time = clock + 1]]
               /\ clock' = clock + 1
               /\ UNCHANGED <<cfg, ledger, ret>>

\* The summary's upsert is done, or store_message raises and the except
\* clause of _maybe_summarize_session prints the exception
SummaryWrite(task, ok) ==
    LET f == tasks[task] IN
    /\ f.pc = "summary_write"
    /\ IF ok
       THEN /\ ledger' = StoreMessage(ledger, SummarySessionId(f.session_id),
                                      <<"CONVERSATION_SUMMARY">>, f.summary, f.summary_time,
                                      <<>>,
                                      [type |-> "summary", original_session |-> f.session_id])
            /\ tasks' = [tasks EXCEPT ![task] = [f EXCEPT !.pc = "summary_stored"]]
            /\ UNCHANGED <<cfg, active_sessions, clock, ret>>
       ELSE /\ tasks' = [tasks EXCEPT ![task] = Idle]
            /\ ret' = Result("add_message", f.session_id, FALSE, <<f.point_id>>,
                             "summarization_failed_on_store", 0)
            /\ UNCHANGED <<cfg, ledger, active_sessions, clock>>

\* _maybe_summarize_session resumes after the summary's store_message and
\* add_message returns
AfterSummaryStored(task) ==
    LET f == tasks[task] IN
    /\ f.pc = "summary_stored"
    /\ active_sessions' = [active_sessions EXCEPT
                              ![f.session_id] = CompactedBy(@, f.messages_to_summarize)]
    /\ tasks' = [tasks EXCEPT ![task] = Idle]
    /\ ret' = Result("add_message", f.session_id, FALSE, <<f.point_id>>, "summarized", 0)
    /\ UNCHANGED <<cfg, ledger, clock>>

RECURSIVE JoinParts(_)
\* "\n\n".join(context_parts)
JoinParts(parts) ==
    IF parts = <<>> THEN <<>>
    ELSE IF Len(parts) = 1 THEN parts[1]
    ELSE parts[1] \o <<"\n\n">> \o JoinParts(Tail(parts))

\* f"User: {msg['message']}", f"Assistant: {msg['response']}" for each message
RecentParts(messages) ==
    Flatten([i \in 1..Len(messages) |->
                << <<"User:">> \o messages[i].message,
                   <<"Assistant:">> \o messages[i].response >>])

\* the "[Earlier] ..." parts of the search results that are not the last message
EarlierParts(results, session_id, last) ==
    LET kept == SelectSeq(results, LAMBDA r :
                    r.id # session_id \o "_" \o IsoFormat(last.timestamp))
    IN Flatten([i \in 1..Len(kept) |->
                   << <<"[Earlier]", "User:">> \o kept[i].message,
                      <<"[Earlier]", "Assistant:">> \o kept[i].response >>])

\* max_tokens: int = None, the argument left out
NoMaxTokens == -1

\* max_tokens or self.max_context_tokens: None and 0 are both falsy
EffectiveMaxTokens(max_tokens) ==
    IF max_tokens = NoMaxTokens \/ max_tokens = 0 THEN cfg.max_context_tokens ELSE max_tokens

\* the entry rebuilt whatever get_recent_messages returned, an empty list too
RestoredAlways(sessions, L, session_id, scrollOk) ==
    IF session_id \in DOMAIN sessions THEN sessions
    ELSE LET recent_messages == IF scrollOk
                                THEN GetRecentMessages(L, session_id, RestoreLimit)
                                ELSE <<>>
         IN (session_id :>
                [messages |-> recent_messages,
                 token_count |-> SumTokens(recent_messages),
                 last_activity |-> IF recent_messages = <<>> THEN 0
                                   ELSE recent_messages[Len(recent_messages)].timestamp,
                 urls |-> {},
                 topics |-> {}]) @@ sessions

\* The restore step run on every call, extending the entry the registry holds
RestoredEveryCall(sessions, L, session_id, scrollOk) ==
    LET recent_messages == IF scrollOk THEN GetRecentMessages(L, session_id, RestoreLimit)
                           ELSE <<>>
        held == IF session_id \in DOMAIN sessions THEN sessions[session_id].messages ELSE <<>>
    IN IF recent_messages = <<>> THEN sessions
       ELSE (session_id :>
               [messages |-> held \o recent_messages,
                token_count |-> SumTokens(held \o recent_messages),
                last_activity |-> recent_messages[Len(recent_messages)].timestamp,
                urls |-> {},
                topics |-> {}]) @@ sessions

\* The registry after get_context_for_session's restore step.  scrollOk: the
\* scroll of get_recent_messages returns (else it prints and returns []).
Restored(sessions, L, session_id, scrollOk) ==
    IF session_id \in DOMAIN sessions THEN sessions
    ELSE LET recent_messages == IF scrollOk
                                THEN GetRecentMessages(L, session_id, RestoreLimit)
                                ELSE <<>>
         IN IF recent_messages = <<>> THEN sessions
            ELSE (session_id :>
                    [messages |-> recent_messages,
                     token_count |-> SumTokens(recent_messages),
                     last_activity |-> recent_messages[Len(recent_messages)].timestamp,
                     urls |-> {},
                     topics |-> {}]) @@ sessions

\* every message rendered
CheapContextAll(messages) == JoinParts(RecentParts(messages))

\* messages[-10:] rendered
CheapContext(messages) == JoinParts(RecentParts(LastK(messages, RecentWindow)))

\* search results, then messages[-3:]
ExpensiveContext(results, session_id, messages) ==
    JoinParts(EarlierParts(results, session_id, messages[Len(messages)])
              \o RecentParts(LastK(messages, ExpensiveWindow)))

\* search_memory with the upper bound of the time range not handed on
SearchMemoryNoEnd(L, query, session_id, time_range, urls, limit, ranking) ==
    SearchConversations(L, query, session_id, time_range[1], 0, urls, limit, ranking)

\* search_memory: the arguments handed on to search_conversations
SearchMemory(L, query, session_id, time_range, urls, limit, ranking) ==
    SearchConversations(L, query, session_id, time_range[1], time_range[2], urls,
                        limit, ranking)

NoTimeRange == <<0, 0>>

\* What the collection does in one get_context_for_session: it fails every
\* request (the scroll included), it fails the search only, or it answers, the
\* search in one of the Rankings
LedgerReplies == {"scroll_fails", "search_fails"} \cup Rankings

\* get_context_for_session
GetContext(session_id, max_tokens, reply) ==
    LET sessions == Restored(active_sessions, ledger, session_id, reply # "scroll_fails")
        limit == EffectiveMaxTokens(max_tokens)
        done(raised, value, log) ==
            /\ active_sessions' = sessions
            /\ ret' = Result("get_context", session_id, raised, value, log, max_tokens)
            /\ UNCHANGED <<cfg, tasks, ledger, clock>>
    IN IF session_id \notin DOMAIN sessions
       THEN done(FALSE, <<>>, IF reply = "scroll_fails" THEN "restore_failed" ELSE "no_session")
       ELSE LET session == sessions[session_id]
                messages == session.messages
            IN IF RatLeq(session.token_count, RatInt(limit))
               THEN done(FALSE, CheapContext(messages), "recent")
               ELSE IF messages = <<>> THEN done(FALSE, <<>>, "no_messages")
               ELSE IF reply \notin Rankings THEN done(TRUE, <<>>, "search_failed")
               ELSE IF SearchKeyError(ledger, session_id, 0, 0, <<>>, ContextSearchLimit, reply)
                    THEN done(TRUE, <<>>, "search_failed")
               ELSE done(FALSE,
                         ExpensiveContext(
                             SearchMemory(ledger, messages[Len(messages)].message,
                                          session_id, NoTimeRange, <<>>,
                                          ContextSearchLimit, reply),
                             session_id, messages),
                         "searched")

DefaultSearchLimit == 10   \* search_memory(..., limit: int = 10)

\* The time range callers of search_memory ask for: the second to the fourth
\* tick of a process that starts at time start
SearchRange(start) == <<start + 2, start + 4>>

\* search_memory as its callers see it.  It has no try: an exception of
\* embed_query or client.search reaches the caller.
Search(query, session_id, time_range, urls, limit, reply) ==
    LET raised == \/ reply \notin Rankings
                  \/ SearchKeyError(ledger, session_id, time_range[1], time_range[2], urls,
                                    limit, reply)
    IN /\ ret' = [op |-> "search_memory", session_id |-> session_id,
                  raised |-> raised,
                  value |-> IF raised THEN <<>>
                            ELSE SearchMemory(ledger, query, session_id, time_range, urls,
                                              limit, reply),
                  log |-> IF raised THEN "search_failed" ELSE "searched",
                  max_tokens |-> 0, restored |-> FALSE,
                  args |-> [query |-> query, time_range |-> time_range, urls |-> urls,
                            limit |-> limit, ranking |-> reply]]
       /\ UNCHANGED <<cfg, tasks, ledger, active_sessions, clock>>

----------------------------------------------------------------------------
(* The collection a process may find at construction *)

\* The i-th point of a collection: what store_message appends to the i - 1
\* points before it, for a turn of session s1 at time i
PreloadedPoint(i) ==
    LET in == IF i % 2 = 1 THEN Turn2 ELSE Turn1
        stored == StoreMessage(<<>>, "s1", in.message, in.response, i, in.urls, NoMetadata)
    IN [stored[1] EXCEPT !.id = "uuid-" \o ToString(i)]

\* n turns of session s1, written by an earlier process that never summarized
Preloaded(n) == [i \in 1..n |-> PreloadedPoint(i)] \o <<>>

\* The time at which a process that finds an empty collection starts: early
\* enough for MaxStores turns and the summary of one compaction
EmptyStart == Horizon - MaxStores - 1

\* Scenario A: the threshold 200 and turns of about 50 words on session s1
ScenarioConfig ==
    [summarization_threshold |-> 200, compression_ratio |-> DefaultCompressionRatio,
     max_context_tokens |-> DefaultMaxContextTokens, summarizer |-> TRUE]

Words(n) == [i \in 1..n |-> "w"]

ScenarioInputs ==
    { [message |-> Words(m), response |-> Words(25), urls |-> <<>>] : m \in {23, 25, 27} }

ScenarioTurns == 6

InitA ==
    /\ tasks = NoTasks
    /\ cfg = ScenarioConfig
    /\ ledger = <<>>
    /\ clock = Horizon - ScenarioTurns - 1
    /\ active_sessions = [s \in {} |-> NewSession(0)]
    /\ ret = [op |-> "init", session_id |-> "", raised |-> FALSE, value |-> <<>>,
              log |-> "", max_tokens |-> 0, restored |-> FALSE]

NextA == \E in \in ScenarioInputs : AddMessage("s1", in, "none")

SpecA == InitA /\ [][NextA]_vars

Init ==
    /\ tasks = NoTasks
    /\ cfg \in Configs
    /\ \/ ledger = <<>> /\ clock = EmptyStart
       \/ ledger = Preloaded(PreloadedTurns) /\ clock = PreloadedTurns
    /\ active_sessions = [s \in {} |-> NewSession(0)]
    /\ ret = [op |-> "init", session_id |-> "", raised |-> FALSE, value |-> <<>>,
              log |-> "", max_tokens |-> 0, restored |-> FALSE]

Next ==
    \/ \E call \in Calls, fault \in AddFaults : AddMessage(call[1], call[2], fault)
    \/ \E session_id \in Sessions, max_tokens \in MaxTokensArgs, reply \in LedgerReplies :
          GetContext(session_id, max_tokens, reply)

Spec == Init /\ [][Next]_vars

\* A collection in which another writer left a point of s1 without a
\* timestamp, among MalformedTurns points of s1
MalformedTurns == 4

WithoutTimestamp(L, k) == [L EXCEPT ![k].timestamp = ""]

InitM ==
    /\ tasks = NoTasks
    /\ cfg \in Configs
    /\ ledger \in {WithoutTimestamp(Preloaded(MalformedTurns), k) : k \in 1..MalformedTurns}
    /\ clock = Horizon - 3
    /\ active_sessions = [s \in {} |-> NewSession(0)]
    /\ ret = [op |-> "init", session_id |-> "", raised |-> FALSE, value |-> <<>>,
              log |-> "", max_tokens |-> 0, restored |-> FALSE]

NextM ==
    \/ \E in \in UserInputs : AddMessage("s1", in, "none")
    \/ \E max_tokens \in MaxTokensArgs, reply \in LedgerReplies :
          GetContext("s1", max_tokens, reply)

SpecM == InitM /\ [][NextM]_vars

\* The process ends and a new one is constructed on the same collection:
\* self.active_sessions = {} while the points stay
Restart ==
    /\ DOMAIN active_sessions # {}
    /\ active_sessions' = [s \in {} |-> NewSession(0)]
    /\ ret' = [op |-> "restart", session_id |-> "", raised |-> FALSE, value |-> <<>>,
               log |-> "", max_tokens |-> 0, restored |-> FALSE]
    /\ UNCHANGED <<cfg, tasks, ledger, clock>>

\* The time at which the first of a series of processes starts: early enough
\* for MaxStores turns and a compaction before a restart, and a turn and a
\* compaction after it
RestartStart == Horizon - MaxStores - 3

InitR ==
    /\ tasks = NoTasks
    /\ cfg \in {c \in Configs : c.summarizer}
    /\ ledger = <<>>
    /\ clock = RestartStart
    /\ active_sessions = [s \in {} |-> NewSession(0)]
    /\ ret = [op |-> "init", session_id |-> "", raised |-> FALSE, value |-> <<>>,
              log |-> "", max_tokens |-> 0, restored |-> FALSE]

\* The calls of each process: turns added to s1 and its context asked for
\* with the default budget
NextR ==
    \/ \E in \in UserInputs : AddMessage("s1", in, "none")
    \/ \E reply \in LedgerReplies : GetContext("s1", NoMaxTokens, reply)
    \/ Restart

SpecR == InitR /\ [][NextR]_vars

\* A collection that holds more turns of s1 than one scroll returns.  The
\* scroll yields points in the order of their ids, which uuid4 draws at
\* random: the collection's order is the order of writing or its reverse.
LongHistories ==
    UNION { {Preloaded(n), Reverse(Preloaded(n))} : n \in ScrollLimit..(ScrollLimit + 2) }

InitW ==
    /\ tasks = NoTasks
    /\ cfg \in Configs
    /\ ledger \in LongHistories
    /\ clock = Horizon
    /\ active_sessions = [s \in {} |-> NewSession(0)]
    /\ ret = [op |-> "init", session_id |-> "", raised |-> FALSE, value |-> <<>>,
              log |-> "", max_tokens |-> 0, restored |-> FALSE]

\* Processes that read the long history: each asks for the context of s1
NextW ==
    \/ \E max_tokens \in MaxTokensArgs, reply \in LedgerReplies :
          GetContext("s1", max_tokens, reply)
    \/ Restart

SpecW == InitW /\ [][NextW]_vars

\* A long-lived session: one process on an empty collection that only adds
\* turns to s1, for LongRun ticks of the clock, with a summarizer and a
\* collection that never fail
LongRun == 14

InitL ==
    /\ tasks = NoTasks
    /\ cfg \in {c \in Configs : c.summarizer}
    /\ ledger = <<>>
    /\ clock = Horizon - LongRun
    /\ active_sessions = [s \in {} |-> NewSession(0)]
    /\ ret = [op |-> "init", session_id |-> "", raised |-> FALSE, value |-> <<>>,
              log |-> "", max_tokens |-> 0, restored |-> FALSE]

NextL == \E in \in UserInputs : AddMessage("s1", in, "none")

SpecL == InitL /\ [][NextL]_vars

\* add_message run step by step, with get_context_for_session called while
\* it waits.  One coroutine at a time: the callers serialize add_message.
InitC ==
    /\ tasks = [t \in {1} |-> Idle]
    /\ cfg \in Configs
    /\ \/ ledger = <<>> /\ clock = EmptyStart
       \/ ledger = Preloaded(PreloadedTurns) /\ clock = PreloadedTurns
    /\ active_sessions = [s \in {} |-> NewSession(0)]
    /\ ret = [op |-> "init", session_id |-> "", raised |-> FALSE, value |-> <<>>,
              log |-> "", max_tokens |-> 0, restored |-> FALSE]

\* A suspended coroutine runs to its next await or to its return; Outcomes
\* says whether the collection and the summarizer may fail
Steps(Outcomes) ==
    \E task \in DOMAIN tasks :
        \/ \E ok \in Outcomes : TurnWrite(task, ok)
        \/ \E chatOk \in Outcomes : AfterTurnStored(task, chatOk)
        \/ \E ok \in Outcomes : SummaryWrite(task, ok)
        \/ AfterSummaryStored(task)

NextC ==
    \/ \E in \in UserInputs : CallAdd(1, "s1", in)
    \/ Steps(BOOLEAN)
    \/ \E reply \in LedgerReplies : GetContext("s1", NoMaxTokens, reply)

SpecC == InitC /\ [][NextC]_vars

\* Two add_message coroutines on s1 that the callers do not serialize, in a
\* process that found the turns of an earlier one in the collection
InitO ==
    /\ tasks = [t \in {1, 2} |-> Idle]
    /\ cfg \in {c \in Configs : c.summarizer}
    /\ ledger = Preloaded(PreloadedTurns)
    /\ clock = PreloadedTurns
    /\ active_sessions = [s \in {} |-> NewSession(0)]
    /\ ret = [op |-> "init", session_id |-> "", raised |-> FALSE, value |-> <<>>,
              log |-> "", max_tokens |-> 0, restored |-> FALSE]

\* The second coroutine is the one that starts while the first is suspended
NextO ==
    \/ \E in \in UserInputs : CallAdd(1, "s1", in)
    \/ \E in \in UserInputs : tasks[1].pc # "idle" /\ CallAdd(2, "s1", in)
    \/ Steps({TRUE})
    \/ GetContext("s1", NoMaxTokens, "newest")

SpecO == InitO /\ [][NextO]_vars

\* Ad hoc lookups: a process that adds turns to s1 (compacting them into
\* summaries stored under s1_summary) while callers search the collection
InitS ==
    /\ tasks = NoTasks
    /\ cfg \in {c \in Configs : c.summarizer}
    /\ ledger = <<>>
    /\ clock = EmptyStart
    /\ active_sessions = [s \in {} |-> NewSession(0)]
    /\ ret = [op |-> "init", session_id |-> "", raised |-> FALSE, value |-> <<>>,
              log |-> "", max_tokens |-> 0, restored |-> FALSE]

SearchReplies == {"search_fails"} \cup Rankings

NextS ==
    \/ \E in \in UserInputs : AddMessage("s1", in, "none")
    \/ \E session_id \in Sessions \cup {""},
          time_range \in {NoTimeRange, SearchRange(EmptyStart)},
          urls \in {<<>>, Turn2.urls},
          limit \in {1, DefaultSearchLimit},
          reply \in SearchReplies :
          Search(Turn1.message, session_id, time_range, urls, limit, reply)

SpecS == InitS /\ [][NextS]_vars

----------------------------------------------------------------------------
(* The claims *)

IsHot(session_id) == session_id \in DOMAIN active_sessions

\* The point the collection holds for a message of a session's registry entry
PointOf(L, session_id, msg) ==
    {i \in 1..Len(L) : /\ L[i].session_id = session_id
                       /\ L[i].timestamp = IsoFormat(msg.timestamp)
                       /\ L[i].message = msg.message
                       /\ L[i].response = msg.response}

\* Every message of every registry entry is a point of the collection
HotTurnsStored(sessions, L) ==
    \A s \in DOMAIN sessions : \A i \in 1..Len(sessions[s].messages) :
        PointOf(L, s, sessions[s].messages[i]) # {}

\* C1: add_message is all-or-nothing with respect to the durable write.  An
\* add_message step in which the turn was not stored raises to its caller, and
\* a step that raises leaves the registry as it was (no entry created, no
\* message appended, token_count, last_activity and urls unchanged); and
\* after every step each message held in the registry is a point of the
\* collection.
C1_AllOrNothing ==
    [][ /\ (ret'.op = "add_message" /\ ledger' = ledger) => ret'.raised
        /\ (ret'.op = "add_message" /\ ret'.raised) => active_sessions' = active_sessions
        /\ HotTurnsStored(active_sessions', ledger') ]_vars

\* an add_message on a session the registry does not hold has raised, with
\* turns of other sessions held
C1_Witness ==
    /\ ret.op = "add_message"
    /\ ret.raised
    /\ ~IsHot(ret.session_id)
    /\ DOMAIN active_sessions # {}

FailedCompaction(r) ==
    r.op = "add_message" /\ r.log \in {"summarization_failed", "summarization_failed_on_store"}

\* C2: a failed compaction is a no-op for the caller.  An add_message step
\* whose compaction failed at the summarizer or at the summary's write returns
\* the stored turn's id without raising; the registry entry afterwards is the
\* entry before plus the one new message (no prefix removed, token_count
\* raised by that turn's estimate only, not scaled); and the collection gained
\* the turn's point and no summary.
C2_FailedCompactionNoOp ==
    [][ FailedCompaction(ret') =>
          LET s == ret'.session_id
              new == active_sessions'[s]
              last == new.messages[Len(new.messages)]
              oldMessages == IF IsHot(s) THEN active_sessions[s].messages ELSE <<>>
              oldTokens == IF IsHot(s) THEN active_sessions[s].token_count ELSE Zero
          IN /\ ~ret'.raised
             /\ Len(ledger') = Len(ledger) + 1
             /\ SubSeq(ledger', 1, Len(ledger)) = ledger
             /\ ledger'[Len(ledger')].metadata.type # "summary"
             /\ ledger'[Len(ledger')].session_id = s
             /\ ret'.value = <<ledger'[Len(ledger')].id>>
             /\ new.messages = Append(oldMessages, last)
             /\ new.token_count = RatAdd(oldTokens, EstimateTokens(last.message, last.response))
             /\ \A t \in DOMAIN active_sessions' \ {s} :
                    t \in DOMAIN active_sessions /\ active_sessions'[t] = active_sessions[t] ]_vars

\* a compaction of five or more messages has failed at the summarizer
C2_Witness ==
    /\ ret.op = "add_message"
    /\ ret.log = "summarization_failed"
    /\ Len(active_sessions[ret.session_id].messages) >= MinMessages

Summarized(r) == r.op = "add_message" /\ r.log = "summarized"

\* C3 (as claimed): on every successful compaction token_count afterwards is
\* token_count before the compaction times the configured compression_ratio.
C3_ScaledByConfiguredRatio ==
    [][ Summarized(ret') =>
          LET s == ret'.session_id
              turn == ledger'[Len(ledger) + 1]
              before == RatAdd(IF IsHot(s) THEN active_sessions[s].token_count ELSE Zero,
                               EstimateTokens(turn.message, turn.response))
          IN active_sessions'[s].token_count = RatMul(before, cfg.compression_ratio) ]_vars

\* The summaries the collection holds for a session
SummariesOf(L, session_id) ==
    SelectSeq(L, LAMBDA p : p.metadata.type = "summary"
                            /\ p.metadata.original_session = session_id)

TurnsOf(L, session_id) ==
    SelectSeq(L, LAMBDA p : p.session_id = session_id /\ p.metadata.type # "summary")

\* The value json.dumps wrote for a key of the summary
JsonField(tokens, key) == tokens[(CHOOSE i \in 1..Len(tokens) : tokens[i] = key) + 1]

HotCount(session_id) == IF IsHot(session_id) THEN Len(active_sessions[session_id].messages) ELSE 0

\* C4 (amended): in scenario A the first compaction happens on the 5th
\* add_message: before it no summary is stored and the registry holds every
\* turn; after it the registry holds 3 messages and one summary of
\* message_count 2 is stored; after the 6th the registry holds 4 messages and
\* still that one summary.
C4_ScenarioA ==
    LET n == Len(TurnsOf(ledger, "s1"))
        sums == SummariesOf(ledger, "s1")
    IN /\ n <= 4 => (Len(sums) = 0 /\ HotCount("s1") = n)
       /\ n = 5 => (HotCount("s1") = 3 /\ Len(sums) = 1)
       /\ n = 6 => (HotCount("s1") = 4 /\ Len(sums) = 1)
       /\ (n \in {5, 6}) => JsonField(sums[1].response, "message_count:") = "2"

\* the 6th add_message of the scenario has returned
C4_Witness ==
    /\ cfg = ScenarioConfig
    /\ Len(TurnsOf(ledger, "s1")) = 6
    /\ Len(SummariesOf(ledger, "s1")) = 1
    /\ ret.op = "add_message"

\* C4 (as claimed): the first compaction happens on the 6th add_message, which
\* takes the registry from 6 messages to 3 and stores one summary of
\* message_count 3.
C4_ScenarioAClaimed ==
    LET n == Len(TurnsOf(ledger, "s1"))
        sums == SummariesOf(ledger, "s1")
    IN /\ n <= 5 => Len(sums) = 0
       /\ n = 6 => /\ HotCount("s1") = 3
                   /\ Len(sums) = 1
                   /\ JsonField(sums[1].response, "message_count:") = "3"

\* C5: no step deletes or overwrites a point of the collection: the points
\* held before a step are held after it, unchanged and in place, and every
\* message the registry held before the step is still a point afterwards,
\* whether or not the step dropped it from the registry.
C5_LedgerOnlyGrows ==
    [][ /\ Len(ledger') >= Len(ledger)
        /\ SubSeq(ledger', 1, Len(ledger)) = ledger
        /\ HotTurnsStored(active_sessions, ledger') ]_vars

\* a compaction has dropped messages that the collection still holds
C5_Witness ==
    /\ Summarized(ret)
    /\ LET s == ret.session_id
       IN \E i \in 1..Len(ledger) :
            /\ ledger[i].session_id = s
            /\ \A j \in 1..Len(active_sessions[s].messages) :
                  IsoFormat(active_sessions[s].messages[j].timestamp) # ledger[i].timestamp

GotContext(r) == r.op = "get_context"

RECURSIVE RenderTurns(_)
\* "User: ..." then "Assistant: ..." for each turn, oldest first, the entries
\* two newlines apart
RenderTurns(turns) ==
    IF turns = <<>> THEN <<>>
    ELSE <<"User:">> \o Head(turns).message \o <<"\n\n", "Assistant:">> \o Head(turns).response
         \o (IF Len(turns) = 1 THEN <<>> ELSE <<"\n\n">> \o RenderTurns(Tail(turns)))

\* C7: whenever token_count is at most the budget of the call (max_tokens, or
\* max_context_tokens when none is given), the call
\* returns the last min(10, n) messages of the entry and nothing else: each as
\* its "User:" entry followed by its "Assistant:" entry, oldest first, with no
\* "[Earlier]" fragment.
C7_CheapPath ==
    (GotContext(ret) /\ IsHot(ret.session_id)
     /\ RatLeq(active_sessions[ret.session_id].token_count,
               RatInt(EffectiveMaxTokens(ret.max_tokens))))
        => LET messages == active_sessions[ret.session_id].messages
               n == Len(messages)
               k == IF n < 10 THEN n ELSE 10
           IN /\ ~ret.raised
              /\ ret.value = RenderTurns(SubSeq(messages, n - k + 1, n))
              /\ "[Earlier]" \notin Range(ret.value)

\* the cheap path has returned on an entry of more than 10 messages
C7_Witness ==
    /\ GotContext(ret)
    /\ ret.log = "recent"
    /\ Len(active_sessions[ret.session_id].messages) > 10

\* C8 (as claimed): get_context_for_session never raises to its caller, a
\* failing search included.
C8_NeverRaises == GotContext(ret) => ~ret.raised

ContextLabels == {"User:", "Assistant:", "[Earlier]", "\n\n"}

\* The words of the turns and fragments of a returned context
ContentWords(value) == Len(SelectSeq(value, LAMBDA w : w \notin ContextLabels))

\* C9 (as claimed): the token estimate (words x 1.3) of what a call returns is
\* at most the budget of the call.
C9_WithinBudget ==
    (GotContext(ret) /\ ~ret.raised)
        => 13 * ContentWords(ret.value) <= 10 * EffectiveMaxTokens(ret.max_tokens)

NoHistory(session_id) == \A i \in 1..Len(ledger) : ledger[i].session_id # session_id

\* C10: get_context_for_session on a session the registry does not hold and
\* the collection has no point of returns the empty string, raises nothing and
\* creates no entry.
C10_ScenarioB ==
    (GotContext(ret) /\ NoHistory(ret.session_id))
        => (ret.value = <<>> /\ ~ret.raised /\ ~IsHot(ret.session_id))

\* such a call has returned while the collection holds another session's turns
C10_Witness ==
    /\ GotContext(ret)
    /\ NoHistory(ret.session_id)
    /\ ledger # <<>>
    /\ ret.value = <<>>

----------------------------------------------------------------------------
Searched(r) == r.op = "search_memory"

\* The point of the collection with an id
PointById(L, id) == L[CHOOSE i \in 1..Len(L) : L[i].id = id]

\* C11: search_memory is a filter-preserving passthrough.  A search_memory
\* step changes neither the registry nor the collection; what it returns is
\* what search_conversations returns for the same query, session_id, both
\* bounds of time_range, urls and limit, in the same order; and so every
\* result of a call with session_id s and time_range (t0, t1) is a point of
\* session s whose timestamp lies in [t0, t1] (and carries every url asked
\* for), at most limit of them.
C11_SearchPassthrough ==
    [][ Searched(ret') =>
          LET a == ret'.args
              s == ret'.session_id
          IN /\ active_sessions' = active_sessions
             /\ ledger' = ledger
             /\ ~ret'.raised =>
                  /\ ret'.value = SearchConversations(ledger, a.query, s, a.time_range[1],
                                                      a.time_range[2], a.urls, a.limit,
                                                      a.ranking)
                  /\ Len(ret'.value) <= a.limit
                  /\ \A i \in 1..Len(ret'.value) :
                        LET p == PointById(ledger, ret'.value[i].id)
                            ts == FromIsoFormat(p.timestamp)
                        IN /\ s # "" => p.session_id = s
                           /\ a.time_range # NoTimeRange =>
                                 (a.time_range[1] <= ts /\ ts <= a.time_range[2])
                           /\ Range(a.urls) \subseteq Range(p.urls) ]_vars

\* a search of s1 within a time range has returned some of the session's
\* turns while the collection holds later turns of s1 and other sessions'
\* points that the query would match
C11_Witness ==
    /\ Searched(ret)
    /\ ret.session_id = "s1"
    /\ ret.args.time_range # NoTimeRange
    /\ ret.args.limit = DefaultSearchLimit
    /\ Len(ret.value) >= 2
    /\ \E i \in 1..Len(ledger) : /\ ledger[i].session_id = "s1"
                                  /\ FromIsoFormat(ledger[i].timestamp) > ret.args.time_range[2]
    /\ \E i \in 1..Len(ledger) : ledger[i].session_id # "s1"

----------------------------------------------------------------------------
\* The number of points the process found in the collection when it started
Inherited ==
    IF Len(ledger) >= PreloadedTurns
       /\ SubSeq(ledger, 1, PreloadedTurns) = Preloaded(PreloadedTurns)
    THEN PreloadedTurns ELSE 0

\* The turns this process stored for a session with add_message, oldest first
OwnTurns(session_id) == TurnsOf(DropK(ledger, Inherited), session_id)

\* The registry entry of a session holds the turns this process added to it
\* and nothing else: the entry began empty and no compaction removed a turn
OnlyAdded(session_id) ==
    LET own == OwnTurns(session_id)
        messages == active_sessions[session_id].messages
    IN /\ Len(messages) = Len(own)
       /\ \A i \in 1..Len(own) : IsoFormat(messages[i].timestamp) = own[i].timestamp

RECURSIVE SumEstimates(_)
\* The sum of words x 1.3 over stored turns
SumEstimates(points) ==
    IF points = <<>> THEN Zero
    ELSE RatAdd(Rat(13 * (Len(Head(points).message) + Len(Head(points).response)), 10),
                SumEstimates(Tail(points)))

\* C12: token accounting.  For a session that was not in the registry when
\* its first add_message came, after the N add_message calls made on it so
\* far, none of which compacted, token_count is the sum over those N turns
\* of the number of words of message and response times 1.3.
C12_TokenAccounting ==
    \A s \in DOMAIN active_sessions :
        OnlyAdded(s) => active_sessions[s].token_count = SumEstimates(OwnTurns(s))

\* three turns of unequal size have been added to a session that the
\* collection already had history of
C12_Witness ==
    /\ IsHot("s1")
    /\ OnlyAdded("s1")
    /\ Len(OwnTurns("s1")) >= 3
    /\ Inherited > 0
    /\ \E i, j \in 1..Len(OwnTurns("s1")) :
          Len(OwnTurns("s1")[i].message) # Len(OwnTurns("s1")[j].message)

----------------------------------------------------------------------------
\* C13 (as claimed): lazy creation restores history on first touch by
\* add_message too.  When an add_message that does not compact is the first
\* call naming a session and the collection already holds turns of that
\* session, the registry entry afterwards holds the recent turns of the
\* collection followed by the new turn, and token_count covers all of them.
C13_AddRestoresHistory ==
    [][ (/\ ret'.op = "add_message" /\ ~ret'.raised /\ ret'.log # "summarized"
         /\ ~IsHot(ret'.session_id)
         /\ ~NoHistory(ret'.session_id))
          => LET s == ret'.session_id
                 history == GetRecentMessages(ledger, s, RestoreLimit)
                 new == active_sessions'[s]
             IN /\ new.messages = Append(history, new.messages[Len(new.messages)])
                /\ new.token_count = SumTokens(new.messages) ]_vars

----------------------------------------------------------------------------
\* The points of a session that carry every field, as get_recent_messages
\* reads them
ValidTurns(L, session_id) ==
    LET valid == SelectSeq(L, LAMBDA p : p.session_id = session_id /\ ~NoTimestamp(p))
    IN [i \in 1..Len(valid) |->
           [timestamp |-> FromIsoFormat(valid[i].timestamp), message |-> valid[i].message,
            response |-> valid[i].response, urls |-> valid[i].urls]]

\* C14 (as claimed): malformed points are skipped one by one.  When
\* get_context_for_session reads the collection for a session the registry
\* does not hold, and the collection holds valid turns of the session beside
\* points without a timestamp, the registry entry afterwards holds exactly the
\* valid turns (the latest RestoreLimit of them), oldest first.
C14_MalformedSkipped ==
    [][ (/\ GotContext(ret') /\ ret'.log # "restore_failed"
         /\ ~IsHot(ret'.session_id)
         /\ ValidTurns(ledger, ret'.session_id) # <<>>)
          => /\ ret'.session_id \in DOMAIN active_sessions'
             /\ active_sessions'[ret'.session_id].messages
                   = LastK(SortByTimestamp(ValidTurns(ledger, ret'.session_id)),
                           RestoreLimit) ]_vars

----------------------------------------------------------------------------
\* The collection as the calls on one session alone would have left it: the
\* points add_message stored for that session (a summary stored under the
\* session's id is the work of a compaction of another session)
OwnPoints(L, session_id) ==
    SelectSeq(L, LAMBDA p : p.session_id = session_id /\ p.metadata.type # "summary")

\* A step on one session leaves every other session's registry entry as it was
OthersUnchanged ==
    \A b \in (DOMAIN active_sessions \cup DOMAIN active_sessions') \ {ret'.session_id} :
        /\ b \in DOMAIN active_sessions
        /\ b \in DOMAIN active_sessions'
        /\ active_sessions'[b] = active_sessions[b]

\* C15 (as claimed): sessions are independent.  A step on session A leaves
\* the registry entry of every session B # A unchanged, and the entry of each
\* session is what that session's own calls alone would have produced: a
\* get_context_for_session that reads the collection for session A rebuilds
\* A's entry from the turns A's own add_message calls stored, and creates no
\* entry when there are none.
C15_SessionsIndependent ==
    [][ /\ OthersUnchanged
        /\ (GotContext(ret') /\ ret'.log # "restore_failed" /\ ~IsHot(ret'.session_id))
              => LET a == ret'.session_id
                     own == GetRecentMessages(OwnPoints(ledger, a), a, RestoreLimit)
                 IN IF own = <<>> THEN a \notin DOMAIN active_sessions'
                    ELSE /\ a \in DOMAIN active_sessions'
                         /\ active_sessions'[a].messages = own ]_vars

----------------------------------------------------------------------------
\* The call reached self.summarizer.chat
Attempted(r) ==
    r.op = "add_message"
    /\ r.log \in {"summarization_failed", "summarization_failed_on_store", "summarized"}

\* C16: the compaction trigger.  In a process with a summarizer, an
\* add_message that stored its turn calls the summarizer if and only if,
\* with the new turn appended, token_count > summarization_threshold
\* (strictly) and the entry holds at least 5 messages.  Otherwise no summary
\* is stored and the entry is the old one plus the new turn.  No add_message
\* stores more than one summary.
C16_CompactionTrigger ==
    [][ (ret'.op = "add_message" /\ ~ret'.raised /\ cfg.summarizer) =>
          LET s == ret'.session_id
              turn == ledger'[Len(ledger) + 1]
              oldMessages == IF IsHot(s) THEN active_sessions[s].messages ELSE <<>>
              oldTokens == IF IsHot(s) THEN active_sessions[s].token_count ELSE Zero
              tokens == RatAdd(oldTokens, Rat(13 * (Len(turn.message) + Len(turn.response)), 10))
              n == Len(oldMessages) + 1
              new == active_sessions'[s]
          IN /\ Attempted(ret') <=>
                   (tokens.n > cfg.summarization_threshold * tokens.d /\ n >= 5)
             /\ ~Attempted(ret') =>
                   /\ Len(ledger') = Len(ledger) + 1
                   /\ Len(new.messages) = n
                   /\ SubSeq(new.messages, 1, n - 1) = oldMessages
                   /\ new.token_count = tokens
             /\ Len(ledger') <= Len(ledger) + 2
             /\ Len(SelectSeq(SubSeq(ledger', Len(ledger) + 1, Len(ledger')),
                              LAMBDA p : p.metadata.type = "summary")) <= 1 ]_vars

\* an add_message has returned without calling the summarizer on an entry
\* of 5 messages whose token_count equals the threshold
C16_Witness ==
    /\ ret.op = "add_message"
    /\ ret.log = "under_threshold"
    /\ cfg.summarizer
    /\ Len(active_sessions[ret.session_id].messages) = 5
    /\ active_sessions[ret.session_id].token_count = RatInt(cfg.summarization_threshold)

----------------------------------------------------------------------------
\* The registry's messages of a session as add_message has them when it
\* calls _maybe_summarize_session: the old ones and the turn just stored
BeforeCompaction(session_id) ==
    LET turn == ledger'[Len(ledger) + 1]
        oldMessages == IF IsHot(session_id) THEN active_sessions[session_id].messages
                       ELSE <<>>
    IN Append(oldMessages, [timestamp |-> FromIsoFormat(turn.timestamp),
                            message |-> turn.message, response |-> turn.response,
                            urls |-> turn.urls])

\* C17: the compaction batch.  A successful compaction of an entry of n
\* messages removes exactly the oldest floor(n/2) of them, leaves the other
\* n - floor(n/2) in their order, and stores one summary whose message_count
\* is floor(n/2) and whose start_time and end_time are the timestamps of the
\* first and the last removed message.
C17_CompactionBatch ==
    [][ Summarized(ret') =>
          LET s == ret'.session_id
              pre == BeforeCompaction(s)
              n == Len(pre)
              k == n \div 2
              summary == ledger'[Len(ledger')]
          IN /\ active_sessions'[s].messages = SubSeq(pre, k + 1, n)
             /\ Len(ledger') = Len(ledger) + 2
             /\ summary.metadata = [type |-> "summary", original_session |-> s]
             /\ JsonField(summary.response, "session_id:") = s
             /\ JsonField(summary.response, "message_count:") = ToString(k)
             /\ JsonField(summary.response, "start_time:") = IsoFormat(pre[1].timestamp)
             /\ JsonField(summary.response, "end_time:") = IsoFormat(pre[k].timestamp) ]_vars

\* a compaction of 5 messages of unequal size has removed 2 and kept 3
C17_Witness ==
    /\ Summarized(ret)
    /\ Len(active_sessions[ret.session_id].messages) = 3
    /\ JsonField(ledger[Len(ledger)].response, "message_count:") = "2"
    /\ \E i, j \in 1..3 :
          Len(active_sessions[ret.session_id].messages[i].message)
            # Len(active_sessions[ret.session_id].messages[j].message)

----------------------------------------------------------------------------
\* |a - b| < 1: two token counts agree to within one token
WithinOneToken(a, b) ==
    LET diff == a.n * b.d - b.n * a.d
    IN (IF diff < 0 THEN -diff ELSE diff) < a.d * b.d

\* C18 (as claimed): the token-estimate invariant.  In every reachable state
\* the token_count of each registry entry equals, within rounding, the sum of
\* words x 1.3 over the messages the entry holds.
C18_TokenEstimateInvariant ==
    \A s \in DOMAIN active_sessions :
        WithinOneToken(active_sessions[s].token_count,
                       SumTokens(active_sessions[s].messages))

----------------------------------------------------------------------------
\* The time a summary wrote under a key
SummaryTime(summary, key) == FromIsoFormat(JsonField(summary.response, key))

\* C19 (as claimed): no turn is summarized twice.  Across add_message and
\* get_context_for_session calls and restarts of the process on the same
\* collection, the turn ranges of the summaries stored for a session are
\* pairwise disjoint and chronologically increasing: each summary starts
\* after the end of every summary stored before it.
C19_NoTurnSummarizedTwice ==
    \A s \in Sessions :
        LET sums == SummariesOf(ledger, s)
        IN \A i, j \in 1..Len(sums) :
             i < j => SummaryTime(sums[i], "end_time:") < SummaryTime(sums[j], "start_time:")

----------------------------------------------------------------------------
\* The step is a get_context_for_session that calls get_recent_messages: it
\* does so exactly when the registry does not hold the session
Fetches == GotContext(ret') /\ ret'.session_id \notin DOMAIN active_sessions

\* C20 (as claimed): restoration happens only on first touch.  For every
\* session, one without history in the collection included, once a
\* get_context_for_session call for it has returned, the next
\* get_context_for_session call for it does not read the collection again.
C20_FetchOnlyOnFirstTouch ==
    [][ (GotContext(ret) /\ ret'.session_id = ret.session_id) => ~Fetches ]_vars

----------------------------------------------------------------------------
\* C21 (as claimed): the restored window.  When get_context_for_session
\* restores a session of which the collection holds N turns, N larger than the
\* scroll page of 100 included, the rebuilt entry holds exactly the latest
\* min(20, N) turns of the session, oldest first, and token_count is the sum
\* of words x 1.3 over exactly those turns.
C21_RestoredWindow ==
    [][ (/\ GotContext(ret') /\ ret'.log # "restore_failed"
         /\ ~IsHot(ret'.session_id)
         /\ ~NoHistory(ret'.session_id))
          => LET s == ret'.session_id
                 latest == LastK(SortByTimestamp(ValidTurns(ledger, s)), RestoreLimit)
             IN /\ s \in DOMAIN active_sessions'
                /\ active_sessions'[s].messages = latest
                /\ active_sessions'[s].token_count = SumTokens(latest) ]_vars

----------------------------------------------------------------------------
\* C22 (as claimed): path selection follows the caller's budget.  For every
\* max_tokens >= 0 the caller passes, 0 included, a call on a session the
\* registry holds takes the cheap path exactly when token_count <= max_tokens;
\* otherwise it takes the expensive path, with one search whose query is the
\* message of the entry's last turn, on the same session, with limit 5.
C22_PathFollowsBudget ==
    (GotContext(ret) /\ IsHot(ret.session_id) /\ ret.max_tokens >= 0)
        => LET s == ret.session_id
               session == active_sessions[s]
               last == session.messages[Len(session.messages)]
               cheap == RatLeq(session.token_count, RatInt(ret.max_tokens))
           IN /\ cheap <=> ret.log = "recent"
              /\ ~cheap => ret.log \in {"searched", "search_failed"}
              /\ ret.log = "searched" =>
                    \E ranking \in Rankings :
                        ret.value = ExpensiveContext(
                                        SearchConversations(ledger, last.message, s, 0, 0, <<>>,
                                                            ContextSearchLimit, ranking),
                                        s, session.messages)

----------------------------------------------------------------------------
\* The id store_message gave the point of a session's latest registry message
LatestTurnId(session_id) ==
    LET messages == active_sessions[session_id].messages
        at == PointOf(ledger, session_id, messages[Len(messages)])
    IN ledger[CHOOSE i \in at : \A j \in at : j <= i].id

\* The "[Earlier]" entries of search results
EarlierFragments(results) ==
    Flatten([i \in 1..Len(results) |->
                << <<"[Earlier]", "User:">> \o results[i].message,
                   <<"[Earlier]", "Assistant:">> \o results[i].response >>])

\* C23 (as claimed): no duplication of the latest turn on the expensive
\* path.  What the expensive path returns is the "[Earlier]" entries of the
\* search results other than the record of the session's most recent turn
\* (the point with the id store_message gave it), followed by the last 3
\* turns: the most recent turn appears once, in the recent section.
C23_LatestTurnOnce ==
    (GotContext(ret) /\ ret.log = "searched")
        => LET s == ret.session_id
               messages == active_sessions[s].messages
           IN \E ranking \in Rankings :
                LET results == SearchConversations(ledger, messages[Len(messages)].message,
                                                   s, 0, 0, <<>>, ContextSearchLimit, ranking)
                    kept == SelectSeq(results, LAMBDA r : r.id # LatestTurnId(s))
                IN ret.value = JoinParts(EarlierFragments(kept)
                                         \o RecentParts(LastK(messages, ExpensiveWindow)))

----------------------------------------------------------------------------
\* A registry message that is a summary record: the collection holds it as a
\* point stored with type=summary and the message CONVERSATION_SUMMARY
IsSummaryRecord(session_id, msg) ==
    /\ msg.message = <<"CONVERSATION_SUMMARY">>
    /\ \E i \in PointOf(ledger, session_id, msg) : ledger[i].metadata.type = "summary"

\* C24 (as claimed): summaries never enter hot state.  For every session id,
\* one equal to another session's summary id included, no message of the
\* session's registry entry is a summary record.
C24_NoSummaryInHotState ==
    \A s \in DOMAIN active_sessions :
        \A i \in 1..Len(active_sessions[s].messages) :
            ~IsSummaryRecord(s, active_sessions[s].messages[i])

----------------------------------------------------------------------------
\* The fewest words of a turn the callers send
MinWords ==
    CHOOSE w \in 1..8 :
        /\ \E in \in UserInputs : Len(in.message \o in.response) = w
        /\ \A in \in UserInputs : Len(in.message \o in.response) >= w

Max(a, b) == IF a >= b THEN a ELSE b

\* How many turns of MinWords words keep an estimate that starts at `from`
\* (a fraction of the threshold) at or below the threshold:
\* floor(threshold * (1 - from) / (1.3 * MinWords))
TurnsUnder(from) ==
    RatFloor(Rat(10 * cfg.summarization_threshold * (from.d - from.n),
                 13 * MinWords * from.d))

\* A bound on the registry's length that is made of the threshold, the
\* minimum batch and the turns' sizes only: a session that starts empty
\* crosses the threshold within TurnsUnder(0) + 1 turns, one that was just
\* compacted (estimate above half the threshold) within TurnsUnder(1/2) + 1,
\* and a compaction of n messages leaves n - n \div 2
HotBound == Max(MinMessages, Max(TurnsUnder(Zero) + 1, 2 * TurnsUnder(CompactionScale) + 3))

\* C25: bounded hot state.  While s1 receives turns of at least MinWords
\* words and neither the summarizer nor the collection fails, the registry
\* never holds more than HotBound messages of s1, whatever the number of
\* add_message calls, and the stored summaries keep up with the turns: at
\* most HotBound turns are stored per summary (plus HotBound before the first).
C25_BoundedHotState ==
    /\ HotCount("s1") <= HotBound
    /\ Len(TurnsOf(ledger, "s1")) <= HotBound * (1 + Len(SummariesOf(ledger, "s1")))

\* more turns added than the bound, three summaries stored, and the
\* registry within the bound
C25_Witness ==
    /\ Len(TurnsOf(ledger, "s1")) > HotBound
    /\ Len(SummariesOf(ledger, "s1")) >= 3
    /\ HotCount("s1") >= MinMessages - 1
    /\ HotCount("s1") <= HotBound

----------------------------------------------------------------------------
\* The trigger condition holds for the entry as it is, before any new turn:
\* token_count > summarization_threshold and at least 5 messages
DueIn(sessions, session_id) ==
    /\ cfg.summarizer
    /\ session_id \in DOMAIN sessions
    /\ OverThreshold(sessions[session_id])
    /\ Len(sessions[session_id].messages) >= MinMessages

Due(session_id) == DueIn(active_sessions, session_id)

\* C26: compaction is retried.  A compaction aborted by the summarizer or by
\* the summary's write leaves the session with the trigger condition true;
\* the condition stays true until the session's next add_message that stores
\* its turn; that call attempts a compaction again, over the entry with the
\* new turn appended; and if neither the summarizer nor the collection fails
\* in that call, it completes the compaction.
C26_CompactionRetried ==
    [][ /\ FailedCompaction(ret') => DueIn(active_sessions', ret'.session_id)
        /\ \A s \in Sessions :
              Due(s) =>
                 IF ret'.op = "add_message" /\ ret'.session_id = s /\ ~ret'.raised
                 THEN /\ Attempted(ret')
                      /\ (\E in \in UserInputs : AddMessage(s, in, "none")) => Summarized(ret')
                      /\ Summarized(ret') =>
                            LET pre == BeforeCompaction(s)
                            IN /\ active_sessions'[s].messages
                                     = DropK(pre, Len(pre) \div 2)
                               /\ JsonField(ledger'[Len(ledger')].response, "message_count:")
                                     = ToString(Len(pre) \div 2)
                 ELSE DueIn(active_sessions', s) /\ active_sessions'[s] = active_sessions[s] ]_vars

\* a compaction has completed in the call after one whose compaction was
\* aborted: the registry was built by add_message alone, the turns before the
\* last one were five or more and over the threshold already, and yet the
\* collection holds no summary older than the one just stored
C26_Witness ==
    /\ Summarized(ret)
    /\ Inherited = 0
    /\ Len(SummariesOf(ledger, ret.session_id)) = 1
    /\ LET turns == TurnsOf(ledger, ret.session_id)
           earlier == FirstK(turns, Len(turns) - 1)
       IN /\ Len(earlier) >= MinMessages
          /\ RatLess(RatInt(cfg.summarization_threshold), SumEstimates(earlier))
          /\ Len(active_sessions[ret.session_id].messages)
                = Len(turns) - Len(turns) \div 2

----------------------------------------------------------------------------
\* A summary point of the session that records these messages as its batch
SummaryOfBatch(p, session_id, batch) ==
    /\ p.metadata = [type |-> "summary", original_session |-> session_id]
    /\ JsonField(p.response, "message_count:") = ToString(Len(batch))
    /\ JsonField(p.response, "start_time:") = IsoFormat(batch[1].timestamp)
    /\ JsonField(p.response, "end_time:") = IsoFormat(batch[Len(batch)].timestamp)

\* The coroutine has taken its batch and waits for the summary's store_message
AwaitsSummary(f) == f.pc \in {"summary_write", "summary_stored"}

\* C27: no half-compacted session is observable.  With one add_message in
\* progress at a time, run step by step with get_context_for_session called
\* at any of its awaits: while the coroutine waits for the summary's write
\* the registry entry still begins with the whole batch; and every step
\* leaves a registry entry as it was, or adds one message and its estimate,
\* or removes a prefix and halves token_count in that same step, the summary
\* of exactly that prefix being in the collection before the step.
C27_NoHalfCompaction ==
    [][ /\ \A t \in DOMAIN tasks :
              AwaitsSummary(tasks[t]) =>
                  FirstK(active_sessions[tasks[t].session_id].messages,
                         Len(tasks[t].messages_to_summarize))
                     = tasks[t].messages_to_summarize
        /\ \A s \in DOMAIN active_sessions :
              LET old == active_sessions[s]
                  new == active_sessions'[s]
                  n == Len(old.messages)
                  k == n - Len(new.messages)
              IN \/ new.messages = old.messages /\ new.token_count = old.token_count
                 \/ /\ Len(new.messages) = n + 1
                    /\ SubSeq(new.messages, 1, n) = old.messages
                    /\ new.token_count =
                          RatAdd(old.token_count,
                                 EstimateTokens(new.messages[n + 1].message,
                                                new.messages[n + 1].response))
                 \/ /\ k >= 2
                    /\ new.messages = DropK(old.messages, k)
                    /\ new.token_count = RatMul(old.token_count, CompactionScale)
                    /\ \E i \in 1..Len(ledger) :
                          SummaryOfBatch(ledger[i], s, FirstK(old.messages, k)) ]_vars

\* get_context_for_session has returned the whole entry, batch included,
\* while add_message waits after the summary of that batch was written
C27_Witness ==
    /\ GotContext(ret) /\ ~ret.raised /\ ret.session_id = "s1"
    /\ tasks[1].pc = "summary_stored"
    /\ tasks[1].session_id = "s1"
    /\ FirstK(active_sessions["s1"].messages, Len(tasks[1].messages_to_summarize))
          = tasks[1].messages_to_summarize
    /\ ret.value = CheapContext(active_sessions["s1"].messages)
    /\ \E i \in 1..Len(ledger) :
          SummaryOfBatch(ledger[i], "s1", tasks[1].messages_to_summarize)

----------------------------------------------------------------------------
\* The summary's batch and these messages have a turn in common
Overlaps(p, batch) ==
    /\ SummaryTime(p, "start_time:") <= batch[Len(batch)].timestamp
    /\ SummaryTime(p, "end_time:") >= batch[1].timestamp

\* A stored turn of the session that the registry does not hold, that no
\* coroutine is about to append, and that lies in no summary's time range
Uncovered(session_id) ==
    { i \in 1..Len(ledger) :
        /\ ledger[i].session_id = session_id
        /\ ledger[i].metadata.type # "summary"
        /\ \A j \in 1..Len(active_sessions[session_id].messages) :
              IsoFormat(active_sessions[session_id].messages[j].timestamp)
                 # ledger[i].timestamp
        /\ \A t \in DOMAIN tasks : tasks[t].point_id # ledger[i].id
        /\ \A j \in 1..Len(ledger) :
              (ledger[j].metadata.type = "summary"
               /\ ledger[j].metadata.original_session = session_id)
              => ~(/\ SummaryTime(ledger[j], "start_time:") <= FromIsoFormat(ledger[i].timestamp)
                   /\ FromIsoFormat(ledger[i].timestamp) <= SummaryTime(ledger[j], "end_time:")) }

\* C28: same-session writers are unsafe without serialization.  With two
\* add_message coroutines on s1 interleaving at the awaits of the collection,
\* the prefix removal takes as many messages as the coroutine's batch held
\* from whatever the entry holds then.  When these are the batch, the
\* coroutine's summary in the collection records them; when they are not
\* (the entry was shortened meanwhile), the removal follows another call's
\* compaction whose summary, with a batch that overlaps this one, is in the
\* collection.  The unsafe state, a removed turn that no summary covers, is
\* reachable: C28_Witness.
C28_UnserializedWriters ==
    [][ \A t \in DOMAIN tasks :
          (tasks[t].pc = "summary_stored" /\ tasks'[t].pc = "idle") =>
             LET f == tasks[t]
                 s == f.session_id
                 batch == f.messages_to_summarize
                 old == active_sessions[s].messages
                 removed == FirstK(old, Len(batch))
             IN /\ active_sessions'[s].messages = DropK(old, Len(batch))
                /\ \E j \in 1..Len(ledger) :
                      /\ SummaryOfBatch(ledger[j], s, batch)
                      /\ ledger[j].timestamp = IsoFormat(f.summary_time)
                /\ removed # batch =>
                      \E j \in 1..Len(ledger) :
                          /\ ledger[j].metadata
                                = [type |-> "summary", original_session |-> s]
                          /\ ledger[j].timestamp # IsoFormat(f.summary_time)
                          /\ Overlaps(ledger[j], batch) ]_vars

\* both calls have compacted, their summaries start at the same turn, and
\* a turn that neither summary covers is gone from the registry: every
\* stored turn was in the registry once, in one of the two removals or in
\* what is left
C28_Witness ==
    /\ IsHot("s1")
    /\ \A t \in DOMAIN tasks : tasks[t].pc = "idle"
    /\ Uncovered("s1") # {}
    /\ \E i, j \in 1..Len(ledger) :
          /\ i < j
          /\ ledger[i].metadata = [type |-> "summary", original_session |-> "s1"]
          /\ ledger[j].metadata = [type |-> "summary", original_session |-> "s1"]
          /\ JsonField(ledger[i].response, "start_time:")
                = JsonField(ledger[j].response, "start_time:")
          /\ \E ki, kj \in 2..Len(ledger) :
                /\ JsonField(ledger[i].response, "message_count:") = ToString(ki)
                /\ JsonField(ledger[j].response, "message_count:") = ToString(kj)
                /\ ki + kj + HotCount("s1") = Len(TurnsOf(ledger, "s1"))

----------------------------------------------------------------------------
\* The session's turn records in the collection, summaries left out, as
\* registry messages in chronological order
TurnRecords(L, session_id) ==
    LET turns == TurnsOf(L, session_id)
    IN SortByTimestamp([i \in 1..Len(turns) |->
           [timestamp |-> FromIsoFormat(turns[i].timestamp), message |-> turns[i].message,
            response |-> turns[i].response, urls |-> turns[i].urls]])

\* The registry's messages of the session are the latest of its turn records
SuffixOfHistory(session_id) ==
    LET hot == active_sessions[session_id].messages
        history == TurnRecords(ledger, session_id)
    IN Len(hot) <= Len(history) /\ hot = LastK(history, Len(hot))

\* C29 (as claimed): hot state is a suffix of durable history.  With the
\* calls serialized and one manager writing, in every reachable state the
\* messages of each registry entry are, in the same order, a contiguous
\* suffix of the chronological sequence of that session's turn records in
\* the collection.
C29_HotIsSuffixOfHistory == \A s \in DOMAIN active_sessions : SuffixOfHistory(s)

----------------------------------------------------------------------------
\* The number of messages a summary point records
MessageCount(p) ==
    CHOOSE k \in 0..Len(ledger) : JsonField(p.response, "message_count:") = ToString(k)

\* C30: hot sessions are never empty.  Every registry entry holds at least
\* one message; every summary in the collection records at least 2 messages;
\* right after a compaction the entry holds at least 3; and
\* get_context_for_session never reaches its last return, the one for an
\* entry without messages.
C30_HotSessionsNeverEmpty ==
    /\ \A s \in DOMAIN active_sessions : Len(active_sessions[s].messages) >= 1
    /\ \A i \in 1..Len(ledger) :
          (ledger[i].metadata.type = "summary" /\ ledger[i].metadata.original_session # "")
             => MessageCount(ledger[i]) >= 2
    /\ Summarized(ret) => Len(active_sessions[ret.session_id].messages) >= ExpensiveWindow
    /\ ret.log # "no_messages"

\* a compaction of the smallest entry that can be compacted, in a process
\* that added every turn itself: 2 messages summarized, 3 left, and the
\* sessions the registry holds all have messages
C30_Witness ==
    /\ Summarized(ret)
    /\ Inherited = 0
    /\ Len(TurnsOf(ledger, ret.session_id)) = MinMessages
    /\ MessageCount(ledger[Len(ledger)]) = 2
    /\ Len(active_sessions[ret.session_id].messages) = 3
    /\ \A s \in DOMAIN active_sessions : active_sessions[s].messages # <<>>

====
